---- MODULE Spec2Model ----
(***************************************************************************)
(* Model of the Bling sales dashboard (src/bling_dashboard_streamlit.py):  *)
(* the OAuth2 token lifecycle kept in st.session_state, the 429 backoff of *)
(* post_with_backoff, and the fetch cycle (refresh_access_token followed   *)
(* by the page loop of fetch_orders) behind st.cache_data.                 *)
(*                                                                         *)
(* One Streamlit script run is a sequence of steps, pc naming the place of *)
(* the script that runs next.  The token endpoint, the orders endpoint and *)
(* the user are the environment: their answers are drawn with \E.          *)
(*                                                                         *)
(* Spec is the dashboard with pages reduced to their row counts.  SpecFetch *)
(* is fetch_orders alone with the rows themselves (response shapes and the *)
(* normalization).  SpecBoot is the account registry that                  *)
(* src/bling_oauth_bootstrap.py upserts.                                   *)
(***************************************************************************)
EXTENDS Integers, Sequences, FiniteSets, TLC

(* ------------------------------ bounds -------------------------------- *)
\* The token endpoint issues refresh tokens 1..MaxTok, each one fresh.
MaxTok == 2
\* The orders endpoint returns at most MaxPages - 1 full pages in a row.
MaxPages == 2
\* A page that is not full carries at most MaxShort rows of its own.
MaxShort == 2
\* The registry file holds at most MaxAccounts entries to begin with.
MaxAccounts == 2

(* ------------------------- program constants -------------------------- *)
PAGE_LIMIT == 100
\* post_with_backoff(url, auth, data, tries=3, wait=3)
tries == 3
wait == 3
\* Python's None for a token (st.secrets.get / dict.get of a missing key).
NoToken == 0
\* The state marker of build_auth_link(TS_CLIENT_ID, "auth-ts").
AUTH_TS == "auth-ts"

(* ------------------------- environment values ------------------------- *)
Codes == {"c1", "c2"}
StateValues == {"auth-ts", "other"}
AccessTokens == {"a1"}
StatusCodes == {200, 429, 500}
\* Row counts an orders page may carry (the request asks for PAGE_LIMIT).
RowCounts == {0, 1, PAGE_LIMIT}

\* A JSON value that may be an object: whether it is a dict, the keys it
\* has, and the values under them.
AllKeys == {"id", "data", "numero", "numeroLoja", "total", "loja"}
LojaWithId == [is_dict |-> TRUE, keys |-> {"id"}, val |-> [id |-> "7"]]
LojaWithoutId == [is_dict |-> TRUE, keys |-> {}, val |-> [id |-> ""]]
LojaScalar == [is_dict |-> FALSE, keys |-> {}, val |-> [id |-> ""]]
CompleteRow ==
  [is_dict |-> TRUE, keys |-> AllKeys,
   val |-> [id |-> "1", data |-> "2024-01-05", numero |-> "10",
            numeroLoja |-> "L10", total |-> "12.50", loja |-> LojaWithId]]
\* A row that is not an object (a string, a number, null).
NotAnObject == [CompleteRow EXCEPT !.is_dict = FALSE, !.keys = {}]
\* The rows the orders endpoint may send.
RawRows ==
  { CompleteRow,
    [CompleteRow EXCEPT !.val.total = "abc"],
    [CompleteRow EXCEPT !.val.data = "not a date"],
    [CompleteRow EXCEPT !.keys = {"id", "data"}],
    [CompleteRow EXCEPT !.val.loja = LojaWithoutId],
    [CompleteRow EXCEPT !.val.loja = LojaScalar],
    NotAnObject }

\* n copies of a row.
Repeat(x, n) == [k \in 1..n |-> x]

\* The JSON body of an orders page: a bare list, or an object that may
\* hold a list under "data" and under "itens" (<<>>: key absent or empty).
BareArray(rows) == [is_list |-> TRUE, rows |-> rows, data |-> <<>>, itens |-> <<>>]
UnderData(rows) == [is_list |-> FALSE, rows |-> <<>>, data |-> rows, itens |-> <<>>]
UnderItens(rows) == [is_list |-> FALSE, rows |-> <<>>, data |-> <<>>, itens |-> rows]
Shapes == {"list", "data", "itens"}
Wrap(shape, rows) ==
  CASE shape = "list" -> BareArray(rows)
    [] shape = "data" -> UnderData(rows)
    [] OTHER -> UnderItens(rows)
\* The bodies of the token-lifecycle specification: only the number of rows
\* matters there.
PageBodies == {Wrap(shape, Repeat(CompleteRow, n)) : shape \in Shapes, n \in RowCounts}

\* The query string of the page URL: "" stands for an absent parameter.
NoParams == [code |-> "", state |-> ""]
CallbackParams == [code : Codes, state : StateValues \cup {""}]

\* What the user may have typed in the manual field: nothing, a bare code,
\* or a return URL whose query carries code and state ("" when absent).
EmptyInput == [kind |-> "empty", code |-> "", state |-> ""]
ManualInputs ==
  {EmptyInput}
    \cup [kind : {"bare"}, code : Codes, state : {""}]
    \cup [kind : {"url"}, code : Codes \cup {""}, state : StateValues \cup {""}]

NoResponse == [status |-> 0, access_token |-> "", refresh_token |-> NoToken]
\* No error: the kind of an error, and the status and page its text names.
NoError == [kind |-> "", status |-> 0, page |-> 0]

VARIABLES
  ts_refresh,        \* st.session_state["ts_refresh"]
  ts_access,         \* st.session_state["ts_access"]
  last_code_used,    \* st.session_state["_last_code_used"]
  query_params,      \* st.query_params
  clicked,           \* the button that is True in this run
  manual,            \* the text read from the manual field (line 140)
  cache,             \* st.cache_data of fetch_orders: key -> <<df, new refresh>>
  pc,                \* place of the script run
  caller,            \* who called post_with_backoff / how the cycle got its result
  code,              \* the code handed to exchange_code_for_tokens
  i,                 \* post_with_backoff: loop index
  r,                 \* post_with_backoff: the response returned
  refresh_token,     \* fetch_orders: argument
  access,            \* fetch_orders: access token of the refresh
  maybe_new_refresh, \* fetch_orders: refresh token of the refresh
  pagina,            \* fetch_orders: params["pagina"]
  all_rows,          \* fetch_orders: number of rows collected
  df,                \* number of records handed to the page
  errors,            \* error of the fetch cycle (NoError when none)
  msg,               \* message of the authorization section ("" when none)
  issued,            \* token endpoint: the latest refresh token it issued
  attempts,          \* history: statuses of the POSTs of the current call
  sleeps,            \* history: the time.sleep arguments of the current call
  sent,              \* history: codes POSTed by earlier exchanges
  pagelog,           \* history: the page requests of the current fetch_orders
  pre,               \* history: session state when the current operation began
  \* fetch_orders with the rows themselves (specification SpecFetch)
  fo_pc,             \* place in fetch_orders
  page_no,           \* params["pagina"]
  raw_rows,          \* all_rows, the rows collected
  recs,              \* the records of the DataFrame returned
  served,            \* history: the shape and rows of each page the endpoint sent
  \* bling_oauth_bootstrap.py: the registry file (specification SpecBoot)
  cfg,               \* cfg["accounts"] of the registry file
  cfg_before,        \* history: the registry before the last upsert
  upserted           \* history: the arguments of the last upsert

session == <<ts_refresh, ts_access, last_code_used>>
locals == <<refresh_token, access, maybe_new_refresh, pagina, all_rows>>
call == <<i, r, attempts, sleeps>>
mainvars == <<ts_refresh, ts_access, last_code_used, query_params, clicked, manual,
          cache, pc, caller, code, i, r, refresh_token, access,
          maybe_new_refresh, pagina, all_rows, df, errors, msg, issued,
          attempts, sleeps, sent, pagelog, pre>>
fetchvars == <<fo_pc, page_no, raw_rows, recs, served>>
bootvars == <<cfg, cfg_before, upserted>>
vars == <<mainvars, fetchvars, bootvars>>

(* ------------------------------ helpers ------------------------------- *)
\* auto_capture_code: the pair is returned only when both are present.
auto_capture_code(qp) ==
  IF qp.code # "" /\ qp.state # "" THEN qp ELSE NoParams

\* Mutant: the dedup test never recognises a code.
AlreadyUsed_never(c) == FALSE

\* The dedup test of lines 100 and 166 against _last_code_used.
AlreadyUsed(c) == c = last_code_used

\* Mutant: every non-200 answer is retried, not only a 429.
ShouldRetry_anyError(status, k) == status # 200 /\ k < tries - 1

\* The retry test of post_with_backoff.
ShouldRetry(status, k) == status = 429 /\ k < tries - 1

\* Mutant: the same wait before every attempt.
Backoff_flat(k) == wait

\* The sleep of post_with_backoff before the next attempt.
Backoff(k) == wait * (k + 1)

\* What the token endpoint may answer: a 200 carries an access token and
\* either no refresh token or a fresh one, which supersedes the previous.
TokenResponses ==
  [status : StatusCodes \ {200}, access_token : {""}, refresh_token : {NoToken}]
    \cup [status : {200}, access_token : AccessTokens,
          refresh_token : {NoToken} \cup (IF issued < MaxTok THEN {issued + 1} ELSE {})]

\* Mutant: the returned value is stored even when it is None.
Persist_always(new_r, old) == new_r

\* Lines 264-265: if new_r: st.session_state["ts_refresh"] = new_r
Persist(new_r, old) == IF new_r # NoToken THEN new_r ELSE old

\* Mutant: a return URL is accepted whatever its state.
ParseManual_anyState(raw) ==
  CASE raw.kind = "empty" -> [code_value |-> "", msg |-> "empty"]
    [] OTHER -> [code_value |-> raw.code, msg |-> ""]

\* The manual field, lines 148-163: the code value and the message shown.
ParseManual(raw) ==
  CASE raw.kind = "empty" -> [code_value |-> "", msg |-> "empty"]
    [] raw.kind = "bare" -> [code_value |-> raw.code, msg |-> ""]
    [] OTHER ->
         IF raw.state # "" /\ raw.state # AUTH_TS
           THEN [code_value |-> "", msg |-> "state_mismatch"]
           ELSE [code_value |-> raw.code, msg |-> ""]

\* Mutant: only the rate limit counts as a failure.
IsOk_not429(status) == status # 429
\* Lines 47-48, 59 and 71: a response other than 200 raises.
IsOk(status) == status = 200

\* The text of the RuntimeError raised for a non-200 response.
ExchangeError(status) == IF status = 429 THEN "rate_limit" ELSE "exchange_failed"
\* Mutant: the failure of the refresh is swallowed.
RefreshError_silent(status) == ""
RefreshError(status) == IF status = 429 THEN "rate_limit" ELSE "refresh_failed"
\* Line 223: the RuntimeError of a failed page names the page and the status.
OrdersError(status, page) ==
  [kind |-> "orders_failed", status |-> status, page |-> page]

\* Mutant: the gate lets a session without refresh token through.
Unauthorized_never(t) == FALSE
\* Line 256: not st.session_state["ts_refresh"].
Unauthorized(t) == t = NoToken

\* Mutant: the rows collected before the failure are handed over.
EmptyDataFrame_partial == all_rows
\* Line 268: df = pd.DataFrame(), a result set without records.
EmptyDataFrame == 0

\* Mutant: only the "data" key is looked at.
ExtractRows_dataOnly(body) ==
  IF body.is_list THEN body.rows ELSE body.data
\* Line 225: the rows of a page, a bare list or an object holding them
\* under "data" or, failing that, under "itens".
ExtractRows(body) ==
  IF body.is_list THEN body.rows
  ELSE IF body.data # <<>> THEN body.data
  ELSE IF body.itens # <<>> THEN body.itens
  ELSE <<>>

\* Mutant: a short page does not end the loop, only an empty one does.
LastPage_onlyEmpty(rows) == FALSE
\* Line 229: len(rows) < PAGE_LIMIT.
LastPage(rows) == Len(rows) < PAGE_LIMIT

\* Mutant: every other page is skipped.
NextPage_skip(p) == p + 2
\* Line 231: params["pagina"] += 1.
NextPage(p) == p + 1

(* ------------------------------- Init --------------------------------- *)
\* Lines 28-30: ts_refresh comes from the secrets (a token issued before the
\* session, or None), the other two are None.
SessionStart ==
  /\ ts_refresh \in {NoToken, 1}
  /\ issued = ts_refresh
  /\ ts_access = ""
  /\ last_code_used = ""
  /\ query_params = NoParams
  /\ clicked = "none"
  /\ manual = EmptyInput
  /\ cache = {}
  /\ pc = "idle"
  /\ caller = ""
  /\ code = ""
  /\ i = 0
  /\ r = NoResponse
  /\ refresh_token = NoToken
  /\ access = ""
  /\ maybe_new_refresh = NoToken
  /\ pagina = 0
  /\ all_rows = 0
  /\ df = 0
  /\ errors = NoError
  /\ msg = ""
  /\ attempts = <<>>
  /\ sleeps = <<>>
  /\ sent = {}
  /\ pagelog = <<>>
  /\ pre = session
\* fetch_orders is not running.
FetchIdle ==
  /\ fo_pc = "off"
  /\ page_no = 0
  /\ raw_rows = <<>>
  /\ recs = <<>>
  /\ served = <<>>
\* The bootstrap script is not used: no registry file.
NoUpsert == [name |-> "", token |-> ""]
BootIdle ==
  /\ cfg = <<>>
  /\ cfg_before = <<>>
  /\ upserted = NoUpsert
Init == SessionStart /\ FetchIdle /\ BootIdle

(* ------------------------------ actions ------------------------------- *)
\* Entering post_with_backoff on behalf of c.
StartCall(c) ==
  /\ pc' = "post"
  /\ caller' = c
  /\ i' = 0
  /\ r' = NoResponse
  /\ attempts' = <<>>
  /\ sleeps' = <<>>

\* The script run is over (st.stop or the end of the script): the page is
\* drawn and the run's locals are gone; the session and the cache remain.
Finish ==
  /\ pc' = "idle"
  /\ clicked' = "none"
  /\ caller' = ""
  /\ code' = ""
  /\ i' = 0
  /\ r' = NoResponse
  /\ refresh_token' = NoToken
  /\ access' = ""
  /\ maybe_new_refresh' = NoToken
  /\ pagina' = 0
  /\ all_rows' = 0
  /\ df' = 0
  /\ errors' = NoError
  /\ msg' = ""
  /\ attempts' = <<>>
  /\ sleeps' = <<>>
  /\ pagelog' = <<>>
  /\ manual' = EmptyInput
  /\ pre' = session'

\* The user makes the script run: the browser comes back from the provider
\* with a callback URL, or a button is pressed, or another widget changes.
UserEvent ==
  /\ pc = "idle"
  /\ UNCHANGED <<fetchvars, bootvars>>
  /\ \E qp \in {query_params} \cup CallbackParams,
        b \in {"none", "trocar", "atualizar"} :
       /\ b # "none" => qp = query_params
       /\ query_params' = qp
       /\ clicked' = b
  /\ pc' = "auto"
  /\ UNCHANGED <<session, manual, cache, caller, code, call, locals, df,
                 errors, msg, issued, sent, pagelog, pre>>

\* Lines 97-101: the automatic capture of ?code=&state=. When it does not
\* exchange, the script goes on to the manual field and reads its text
\* (line 140), which counts only when "Trocar agora" was pressed.
AutoCapture ==
  /\ pc = "auto"
  /\ UNCHANGED <<fetchvars, bootvars>>
  /\ msg' = ""
  /\ LET captured == auto_capture_code(query_params) IN
       /\ code' = captured.code
       /\ IF /\ captured # NoParams
             /\ captured.state = AUTH_TS
             /\ captured.code # ""
             /\ ~AlreadyUsed(captured.code)
            THEN /\ last_code_used' = captured.code
                 /\ pre' = session
                 /\ StartCall("auto")
                 /\ UNCHANGED manual
            ELSE /\ pc' = "manual"
                 /\ \E raw \in ManualInputs :
                      /\ clicked # "trocar" => raw = EmptyInput
                      /\ manual' = raw
                 /\ UNCHANGED <<last_code_used, pre, caller, call>>
  /\ UNCHANGED <<ts_refresh, ts_access, query_params, clicked, cache, locals,
                 df, errors, issued, sent, pagelog>>

\* Lines 43-49: one turn of the loop of post_with_backoff. The token
\* endpoint answers; a fresh refresh token supersedes the one before.
Post ==
  /\ pc = "post"
  /\ UNCHANGED <<fetchvars, bootvars>>
  /\ \E resp \in TokenResponses :
       /\ issued' = IF resp.refresh_token # NoToken
                      THEN resp.refresh_token ELSE issued
       /\ attempts' = Append(attempts, resp.status)
       /\ IF ShouldRetry(resp.status, i)
            THEN /\ sleeps' = Append(sleeps, Backoff(i))
                 /\ i' = i + 1
                 /\ UNCHANGED <<r, pc>>
            ELSE /\ r' = resp
                 /\ pc' = "returned"
                 /\ UNCHANGED <<sleeps, i>>
  /\ UNCHANGED <<session, query_params, clicked, manual, cache, caller, code,
                 locals, df, errors, msg, sent, pagelog, pre>>

\* Lines 57-61 and 103-114: the automatic exchange has its response.
AutoExchanged ==
  /\ pc = "returned"
  /\ UNCHANGED <<fetchvars, bootvars>>
  /\ caller = "auto"
  /\ IF IsOk(r.status)
       THEN /\ ts_refresh' = r.refresh_token
            /\ ts_access' = r.access_token
            /\ msg' = "success"
       ELSE /\ msg' = ExchangeError(r.status)
            /\ UNCHANGED <<ts_refresh, ts_access>>
  /\ query_params' = NoParams
  /\ sent' = sent \cup {code}
  /\ clicked' = "none"
  /\ manual' = EmptyInput
  /\ code' = ""
  /\ pc' = "auto"
  /\ UNCHANGED <<last_code_used, cache, caller, call, locals, df, errors,
                 issued, pagelog, pre>>

\* Lines 146-169: the button "Trocar agora" and the manual field.
Manual ==
  /\ pc = "manual"
  /\ UNCHANGED <<fetchvars, bootvars>>
  /\ IF clicked # "trocar"
       THEN /\ pc' = "gate"
            /\ UNCHANGED <<last_code_used, code, pre, caller, call, msg>>
       ELSE LET p == ParseManual(manual) IN
                /\ code' = p.code_value
                /\ IF p.code_value = ""
                     THEN /\ msg' = p.msg
                          /\ pc' = "gate"
                          /\ UNCHANGED <<last_code_used, pre, caller, call>>
                     ELSE IF AlreadyUsed(p.code_value)
                       THEN /\ msg' = "already_used"
                            /\ pc' = "gate"
                            /\ UNCHANGED <<last_code_used, pre, caller, call>>
                       ELSE /\ last_code_used' = p.code_value
                            /\ pre' = session
                            /\ StartCall("manual")
                            /\ UNCHANGED msg
  /\ manual' = EmptyInput
  /\ UNCHANGED <<ts_refresh, ts_access, query_params, clicked, cache, locals,
                 df, errors, issued, sent, pagelog>>

\* Lines 57-61 and 171-181: the manual exchange has its response.
ManualExchanged ==
  /\ pc = "returned"
  /\ UNCHANGED <<fetchvars, bootvars>>
  /\ caller = "manual"
  /\ sent' = sent \cup {code}
  /\ IF IsOk(r.status)
       THEN /\ ts_refresh' = r.refresh_token
            /\ ts_access' = r.access_token
            /\ msg' = "success"
            /\ query_params' = NoParams
            /\ clicked' = "none"
            /\ code' = ""
            /\ pc' = "auto"
       ELSE /\ msg' = ExchangeError(r.status)
            /\ pc' = "gate"
            /\ UNCHANGED <<ts_refresh, ts_access, query_params, clicked, code>>
  /\ UNCHANGED <<last_code_used, manual, cache, caller, call, locals, df,
                 errors, issued, pagelog, pre>>

\* Lines 203-204 and 255-263: "Atualizar dados" clears the cache; without a
\* refresh token the run stops at the prompt; otherwise fetch_orders is
\* called, and st.cache_data answers for it when it holds the key.
Gate ==
  /\ pc = "gate"
  /\ UNCHANGED <<fetchvars, bootvars>>
  /\ LET kept == IF clicked = "atualizar" THEN {} ELSE cache
         hits == {e \in kept : e.key = ts_refresh}
     IN
       IF Unauthorized(ts_refresh)
         THEN /\ cache' = kept
              /\ UNCHANGED <<session, query_params, issued, sent>>
              /\ Finish
         ELSE IF hits # {}
           THEN LET e == CHOOSE e \in hits : TRUE IN
                  /\ cache' = kept
                  /\ pre' = session
                  /\ df' = e.df
                  /\ ts_refresh' = Persist(e.new_r, ts_refresh)
                  /\ caller' = "cached"
                  /\ pc' = "render"
                  /\ code' = ""
                  /\ msg' = ""
                  /\ UNCHANGED <<ts_access, last_code_used, query_params,
                                 clicked, manual, call, locals, errors, issued,
                                 sent, pagelog>>
           ELSE /\ cache' = kept
                /\ pre' = session
                /\ refresh_token' = ts_refresh
                /\ StartCall("refresh")
                /\ code' = ""
                /\ msg' = ""
                /\ UNCHANGED <<session, query_params, clicked, manual, access,
                               maybe_new_refresh, pagina, all_rows, df, errors,
                               issued, sent, pagelog>>

\* Lines 69-74, 209-219 and 266-268: refresh_access_token has its response.
Refreshed ==
  /\ pc = "returned"
  /\ UNCHANGED <<fetchvars, bootvars>>
  /\ caller = "refresh"
  /\ IF ~IsOk(r.status)
       THEN /\ errors' = [kind |-> RefreshError(r.status),
                          status |-> r.status, page |-> 0]
            /\ df' = EmptyDataFrame
            /\ pc' = "render"
            /\ UNCHANGED <<access, maybe_new_refresh, pagina, all_rows>>
       ELSE /\ access' = r.access_token
            /\ maybe_new_refresh' = r.refresh_token
            /\ pagina' = 1
            /\ all_rows' = 0
            /\ pc' = "page"
            /\ UNCHANGED <<errors, df>>
  /\ UNCHANGED <<session, query_params, clicked, manual, cache, caller, code,
                 call, refresh_token, msg, issued, sent, pagelog, pre>>

\* Lines 220-231 and 266-268: one turn of the page loop of fetch_orders.
GetPage ==
  /\ pc = "page"
  /\ UNCHANGED <<fetchvars, bootvars>>
  /\ \E status \in StatusCodes, body \in PageBodies :
       LET rows == ExtractRows(body) IN
         /\ (IsOk(status) /\ rows # <<>> /\ ~LastPage(rows)) => pagina < MaxPages
         /\ pagelog' = Append(pagelog,
                              [pagina |-> pagina, status |-> status,
                               rows |-> IF IsOk(status) THEN Len(rows) ELSE 0])
         /\ IF ~IsOk(status)
              THEN /\ errors' = OrdersError(status, pagina)
                   /\ df' = EmptyDataFrame
                   /\ pc' = "render"
                   /\ UNCHANGED <<all_rows, pagina>>
              ELSE IF rows = <<>>
                THEN /\ pc' = "normalize"
                     /\ UNCHANGED <<all_rows, pagina, errors, df>>
                ELSE /\ all_rows' = all_rows + Len(rows)
                     /\ IF LastPage(rows)
                          THEN pc' = "normalize" /\ UNCHANGED pagina
                          ELSE pagina' = NextPage(pagina) /\ UNCHANGED pc
                     /\ UNCHANGED <<errors, df>>
  /\ UNCHANGED <<session, query_params, clicked, manual, cache, caller, code,
                 call, refresh_token, access, maybe_new_refresh, msg, issued,
                 sent, pre>>

\* Lines 233-253 and 263-265: one record per row; st.cache_data keeps the
\* result under the argument; the caller persists a new refresh token.
FetchReturn ==
  /\ pc = "normalize"
  /\ UNCHANGED <<fetchvars, bootvars>>
  /\ df' = all_rows
  /\ cache' = {e \in cache : e.key # refresh_token}
                \cup {[key |-> refresh_token, df |-> all_rows,
                       new_r |-> maybe_new_refresh]}
  /\ ts_refresh' = Persist(maybe_new_refresh, ts_refresh)
  /\ pc' = "render"
  /\ UNCHANGED <<ts_access, last_code_used, query_params, clicked, manual,
                 caller, code, call, locals, errors, msg, issued, sent, pagelog,
                 pre>>

\* Lines 270-277 and below: the warnings and the data are drawn.
Render ==
  /\ pc = "render"
  /\ UNCHANGED <<fetchvars, bootvars>>
  /\ UNCHANGED <<session, query_params, cache, issued, sent>>
  /\ Finish

\* ttl=300: an entry of st.cache_data expires.
CacheExpire ==
  /\ pc = "idle"
  /\ UNCHANGED <<fetchvars, bootvars>>
  /\ \E e \in cache : cache' = cache \ {e}
  /\ UNCHANGED <<session, query_params, clicked, manual, pc, caller, code,
                 call, locals, df, errors, msg, issued, sent, pagelog, pre>>

Next ==
  \/ UserEvent
  \/ AutoCapture
  \/ Post
  \/ AutoExchanged
  \/ Manual
  \/ ManualExchanged
  \/ Gate
  \/ Refreshed
  \/ GetPage
  \/ FetchReturn
  \/ Render
  \/ CacheExpire

Spec == Init /\ [][Next]_vars

(* ------------- fetch_orders with the rows themselves ------------------ *)
\* Python's None, and the empty dict that gg passes as default.
None == "None"
EmptyDict == [is_dict |-> TRUE, keys |-> {}, val |-> [id |-> ""]]

\* Lines 234-235: d.get(key, default) if isinstance(d, dict) else default
g(d, key, default) ==
  IF d.is_dict /\ key \in d.keys THEN d.val[key] ELSE default
\* Lines 236-237: g(g(d, k1, {}), k2, default)
gg(d, k1, k2, default) == g(g(d, k1, EmptyDict), k2, default)

\* Lines 240-247: the record of a row.
Record(x) ==
  [id |-> g(x, "id", None),
   data |-> g(x, "data", None),
   numero |-> g(x, "numero", None),
   numeroLoja |-> g(x, "numeroLoja", None),
   total |-> g(x, "total", None),
   loja_id |-> gg(x, "loja", "id", None)]

\* pd.to_datetime(..., errors="coerce"): the timestamp <<year, month, day>>
\* of a text that is a date, NaT for anything else.
Timestamps == ("2024-01-05" :> <<2024, 1, 5>>)
NaT == <<0, 0, 0>>
to_datetime(v) == IF v \in DOMAIN Timestamps THEN Timestamps[v] ELSE NaT
\* pd.to_numeric(..., errors="coerce"): the number (in hundredths) of a text
\* that is a number, NaN for anything else.
Floats == ("12.50" :> 1250)
NaN == -1
to_numeric(v) == IF v \in DOMAIN Floats THEN Floats[v] ELSE NaN
\* Lines 250-252: the two columns that are converted.
Coerce(rec) ==
  [rec EXCEPT !.data = to_datetime(@), !.total = to_numeric(@)]

\* Mutant: rows that are not objects are left out.
Normalize_dropNonObjects(rows) ==
  LET kept == SelectSeq(rows, LAMBDA x : x.is_dict) IN
    [k \in 1..Len(kept) |-> Coerce(Record(kept[k]))]
\* Lines 238-252: one record per row of all_rows, in order.
Normalize(rows) == [k \in 1..Len(rows) |-> Coerce(Record(rows[k]))]

\* The rows the endpoint may hold for one page: up to MaxShort rows of any
\* kind, or a full page.
ShortPages == UNION {[1..n -> RawRows] : n \in 0..MaxShort}
FullPages == {Repeat(CompleteRow, PAGE_LIMIT)}

\* Lines 208-218: fetch_orders after a successful refresh, before page 1.
InitFetch ==
  /\ SessionStart
  /\ ts_refresh = NoToken
  /\ BootIdle
  /\ fo_pc = "page"
  /\ page_no = 1
  /\ raw_rows = <<>>
  /\ recs = <<>>
  /\ served = <<>>

\* Lines 220-231: one turn of the page loop, the page answered 200 in one
\* of the three shapes.
FetchPage ==
  /\ fo_pc = "page"
  /\ \E held \in ShortPages \cup FullPages, shape \in Shapes :
       LET rows == ExtractRows(Wrap(shape, held)) IN
         /\ (rows # <<>> /\ ~LastPage(rows)) => page_no < MaxPages
         /\ served' = Append(served, [shape |-> shape, rows |-> held])
         /\ IF rows = <<>>
              THEN /\ fo_pc' = "normalize"
                   /\ UNCHANGED <<raw_rows, page_no>>
              ELSE /\ raw_rows' = raw_rows \o rows
                   /\ IF LastPage(rows)
                        THEN fo_pc' = "normalize" /\ UNCHANGED page_no
                        ELSE page_no' = NextPage(page_no) /\ UNCHANGED fo_pc
  /\ UNCHANGED <<mainvars, bootvars, recs>>

\* Lines 238-253: the records are built and returned.
FetchNormalize ==
  /\ fo_pc = "normalize"
  /\ recs' = Normalize(raw_rows)
  /\ fo_pc' = "done"
  /\ UNCHANGED <<mainvars, bootvars, page_no, raw_rows, served>>

NextFetch ==
  \/ FetchPage
  \/ FetchNormalize

SpecFetch == InitFetch /\ [][NextFetch]_vars

(* --------- bling_oauth_bootstrap.py: the registry of accounts --------- *)
Names == {"ts", "bz"}
RefreshTokens == {"r1", "r2"}
\* CLIENT_ID of the run that upserts; entries written earlier may carry
\* another one.
CLIENT_ID == "app1"
\* An entry of cfg["accounts"]; name "" stands for an entry without name.
AccountEntries ==
  [name : Names \cup {""}, client_id : {"app0"}, refresh_token : RefreshTokens]
\* What yaml.safe_load may give for a readable file (<<>>: no file, an
\* empty file, or no accounts yet).
Registries == UNION {[1..n -> AccountEntries] : n \in 0..MaxAccounts}

\* Mutant: only the first entry of that name is replaced.
upsert_config_yaml_firstOnly(accounts, account_name, refresh_token_) ==
  LET idx == {k \in 1..Len(accounts) : accounts[k].name = account_name}
      first == IF idx = {} THEN 0
               ELSE CHOOSE k \in idx : \A j \in idx : k <= j
      rest == IF first = 0 THEN accounts
              ELSE [k \in 1..(Len(accounts) - 1) |->
                      IF k < first THEN accounts[k] ELSE accounts[k + 1]]
  IN Append(rest, [name |-> account_name, client_id |-> CLIENT_ID,
                   refresh_token |-> refresh_token_])
\* Lines 137-144 of bling_oauth_bootstrap.py: the entries of another name
\* are kept, the new entry is appended.
upsert_config_yaml(accounts, account_name, refresh_token_) ==
  Append(SelectSeq(accounts, LAMBDA a : a.name # account_name),
         [name |-> account_name, client_id |-> CLIENT_ID,
          refresh_token |-> refresh_token_])

\* Lines 130-136: the registry file as the script finds it.
InitBoot ==
  /\ SessionStart
  /\ ts_refresh = NoToken
  /\ FetchIdle
  /\ cfg \in Registries
  /\ cfg_before = cfg
  /\ upserted = NoUpsert

\* One run of the script (line 176): the registry is read, upserted and
\* written back.
Upsert ==
  /\ \E n \in Names, t \in RefreshTokens :
       /\ upserted' = [name |-> n, token |-> t]
       /\ cfg' = upsert_config_yaml(cfg, n, t)
  /\ cfg_before' = cfg
  /\ UNCHANGED <<mainvars, fetchvars>>

NextBoot == Upsert

SpecBoot == InitBoot /\ [][NextBoot]_vars

(* ------------------------------- claims ------------------------------- *)
\* The places of a fetch cycle after post_with_backoff has returned.
AfterReturn == {"returned", "page", "normalize", "render"}
ExchangeCallers == {"auto", "manual"}

\* C1: at the end of every fetch cycle, successful or failed, the session's
\* ts_refresh is the latest refresh token the token endpoint has issued.
C1_LatestRefreshPersisted ==
  pc = "render" => ts_refresh = issued

\* C2: no exchange is ever started for a code that an earlier exchange of
\* the session has already sent to the token endpoint, whatever codes were
\* submitted in between.
C2_NoCodeSentTwice ==
  (pc = "post" /\ caller \in ExchangeCallers) => code \notin sent

\* The step reads a submission (captured from the URL, or typed and sent
\* with the button) whose code is the one submitted last.
C3_RepeatSubmitted ==
  /\ code' # ""
  /\ code' = last_code_used
  /\ \/ pc = "auto"
     \/ pc = "manual" /\ clicked = "trocar"
\* C3: a submission (automatic or manual) of the code submitted last is
\* refused in the step that reads it: post_with_backoff is not entered, no
\* POST is made, and ts_refresh, ts_access and _last_code_used keep their
\* values.
C3_RepeatRefusedLocally ==
  [][C3_RepeatSubmitted =>
       /\ pc' # "post"
       /\ session' = session
       /\ attempts' = attempts
       /\ issued' = issued
       /\ sent' = sent]_vars
C3_Witness ==
  /\ pc = "gate"
  /\ msg = "already_used"
  /\ code = last_code_used

\* C4: a call of refresh_access_token makes at most 3 POSTs, a further one
\* only after a 429; any other status ends the call with that attempt; three
\* 429s end in the rate-limit error, another non-200 in the refresh error.
C4_RefreshAttempts ==
  caller = "refresh" =>
    /\ Len(attempts) <= 3
    /\ \A k \in 1..(Len(attempts) - 1) : attempts[k] = 429
    /\ pc = "post" =>
         /\ Len(attempts) < 3
         /\ \A k \in 1..Len(attempts) : attempts[k] = 429
    /\ pc \in AfterReturn =>
         /\ Len(attempts) >= 1
         /\ r.status = attempts[Len(attempts)]
         /\ r.status = 429 => Len(attempts) = 3
    /\ pc = "render" =>
         /\ r.status = 429 => errors.kind = "rate_limit"
         /\ r.status \notin {200, 429} => errors.kind = "refresh_failed"
C4_Witness ==
  /\ pc = "render"
  /\ caller = "refresh"
  /\ attempts = <<429, 429, 429>>
  /\ errors.kind = "rate_limit"

\* C5: the wait before attempt k+1 is 3 * k (3, then 6), so the waits grow
\* strictly; every wait follows a 429 and is followed by another attempt:
\* none after the last attempt, none after another status.
C5_BackoffWaits ==
  /\ \A k \in 1..Len(sleeps) : sleeps[k] = 3 * k /\ attempts[k] = 429
  /\ \A k \in 1..(Len(sleeps) - 1) : sleeps[k] < sleeps[k + 1]
  /\ Len(sleeps) = IF pc = "post" \/ attempts = <<>>
                     THEN Len(attempts) ELSE Len(attempts) - 1
C5_Witness ==
  /\ pc = "returned"
  /\ caller = "refresh"
  /\ sleeps = <<3, 6>>
  /\ Len(attempts) = 3

\* C6: after a fetch cycle whose refresh and pages all succeeded, ts_refresh
\* is the value it had before the cycle if the endpoint returned no
\* refresh_token, and the returned value otherwise.
C6_RefreshTokenFrame ==
  (pc = "render" /\ caller = "refresh" /\ errors = NoError) =>
    ts_refresh = IF r.refresh_token = NoToken THEN pre[1] ELSE r.refresh_token
C6_Witness ==
  /\ pc = "render"
  /\ caller = "refresh"
  /\ errors = NoError
  /\ r.refresh_token = NoToken
  /\ ts_refresh # NoToken

\* C7: an exchange answered 200 without a refresh_token is not reported as
\* a successful authorization, and the session no longer holds the previous
\* refresh token.
C7_MissingRefreshTokenFails ==
  (pc = "auto" /\ caller \in ExchangeCallers
     /\ r.status = 200 /\ r.refresh_token = NoToken) =>
    /\ msg # "success"
    /\ pre[1] # NoToken => ts_refresh # pre[1]

\* C8: an exchange makes exactly one POST, whatever the status: it is not
\* retried, not even after a 429.
C8_ExchangePostsOnce ==
  caller \in ExchangeCallers =>
    /\ Len(attempts) <= 1
    /\ pc = "returned" => Len(attempts) = 1

\* C9: when refresh_access_token fails, the error is reported, ts_refresh,
\* ts_access and _last_code_used have the values they had before the call,
\* and the cycle's result set is empty.
C9_RefreshFailureKeepsSession ==
  (pc = "render" /\ caller = "refresh" /\ r.status # 200) =>
    /\ errors.kind \in {"rate_limit", "refresh_failed"}
    /\ session = pre
    /\ df = 0
C9_Witness ==
  /\ pc = "render"
  /\ caller = "refresh"
  /\ r.status = 429
  /\ ts_refresh # NoToken
  /\ errors.kind = "rate_limit"

\* C10 as stated: once ts_refresh holds a token, no step makes it None.
C10_NeverDeauthorized ==
  [][ts_refresh # NoToken => ts_refresh' # NoToken]_vars
\* C10 as amended: the only step that makes a held ts_refresh None is the
\* handling of an exchange answered 200 without a refresh_token; refresh,
\* orders fetch, failed exchanges and refused submissions never do.
C10_DeauthorizedOnlyByTokenlessExchange ==
  [][(ts_refresh # NoToken /\ ts_refresh' = NoToken) =>
       /\ pc = "returned"
       /\ caller \in ExchangeCallers
       /\ r.status = 200
       /\ r.refresh_token = NoToken]_vars
C10_Witness ==
  /\ pc = "gate"
  /\ caller = "manual"
  /\ r.status = 500
  /\ pre[1] # NoToken
  /\ ts_refresh = pre[1]

\* The step reads a callback whose state is present and is not "auth-ts":
\* the page URL at the automatic capture, or a return URL pasted into the
\* manual field and submitted with the button.
C11_MismatchedCallback ==
  \/ /\ pc = "auto"
     /\ query_params.code # ""
     /\ query_params.state \notin {"", AUTH_TS}
  \/ /\ pc = "manual"
     /\ clicked = "trocar"
     /\ manual.kind = "url"
     /\ manual.state \notin {"", AUTH_TS}
\* C11: a callback whose state is present and differs from "auth-ts" is not
\* exchanged, by the automatic capture and by the pasted return URL alike:
\* the step that reads it makes no POST and leaves ts_refresh, ts_access and
\* _last_code_used unchanged.
C11_MismatchedStateNotExchanged ==
  [][C11_MismatchedCallback =>
       /\ pc' # "post"
       /\ session' = session
       /\ attempts' = attempts
       /\ issued' = issued
       /\ sent' = sent]_vars
C11_Witness ==
  /\ pc = "gate"
  /\ msg = "state_mismatch"
  /\ query_params.code # ""
  /\ query_params.state = "other"

\* The rows of the pages a fetch_orders call has received.
RECURSIVE SumRows(_)
SumRows(log) ==
  IF log = <<>> THEN 0 ELSE log[1].rows + SumRows(Tail(log))
\* fetch_orders has left its page loop through one of the two breaks.
Completed == caller = "refresh" /\ pc \in {"normalize", "render"} /\ errors = NoError

C13_StopsAtPageCap ==
  (/\ caller = "refresh"
   /\ Len(pagelog) = MaxPages - 1
   /\ \A k \in 1..Len(pagelog) :
        pagelog[k].status = 200 /\ pagelog[k].rows = PAGE_LIMIT) =>
    /\ pc = "render"
    /\ errors.kind = "pagination_overrun"

\* C14: a page answered with a status other than 200 ends the fetch cycle
\* with an error that names that page and status; the cycle's result set is
\* empty, whatever rows the earlier pages brought, and nothing is cached.
C14_PageFailureIsAllOrNothing ==
  (pagelog # <<>> /\ pagelog[Len(pagelog)].status # 200) =>
    /\ pc = "render"
    /\ errors.kind = "orders_failed"
    /\ errors.status = pagelog[Len(pagelog)].status
    /\ errors.page = pagelog[Len(pagelog)].pagina
    /\ df = 0
    /\ \A e \in cache : e.key # refresh_token
C14_Witness ==
  /\ pc = "render"
  /\ errors.kind = "orders_failed"
  /\ errors.page = 2
  /\ all_rows = PAGE_LIMIT
  /\ df = 0

\* C18: within one fetch_orders call the pages are requested in the order
\* 1, 2, 3, ...: the k-th request asks for page k, and the page asked next
\* is the one after the last requested.
C18_PagesInOrder ==
  /\ \A k \in 1..Len(pagelog) : pagelog[k].pagina = k
  /\ pc = "page" => pagina = Len(pagelog) + 1
C18_Witness ==
  /\ pc = "normalize"
  /\ Len(pagelog) = 2
  /\ pagelog[1].pagina = 1
  /\ pagelog[2].pagina = 2

\* C19: the code of an exchange is in _last_code_used from before the first
\* POST and stays there when the exchange ends, with a 200 or not; ts_refresh
\* and ts_access are untouched while the exchange runs and are written only
\* when it ends with a 200: after a failed exchange they have their earlier
\* values and the code is the one that the dedup test refuses.
C19_CodeKeptTokensOnlyOn200 ==
  [][/\ (pc' \in {"post", "returned"} /\ caller' \in ExchangeCallers) =>
          /\ code' # ""
          /\ last_code_used' = code'
          /\ ts_refresh' = pre'[1]
          /\ ts_access' = pre'[2]
     /\ (pc = "returned" /\ caller \in ExchangeCallers) =>
          /\ last_code_used' = code
          /\ r.status # 200 =>
               /\ ts_refresh' = pre[1]
               /\ ts_access' = pre[2]
     /\ ts_access' # ts_access =>
          /\ pc = "returned"
          /\ caller \in ExchangeCallers
          /\ r.status = 200]_vars
C19_Witness ==
  /\ pc = "gate"
  /\ caller = "manual"
  /\ r.status = 429
  /\ code # ""
  /\ last_code_used = code
  /\ ts_refresh = pre[1]
  /\ ts_access = pre[2]
  /\ ts_access # ""

\* C20: a session without refresh token stops at the gate and makes no
\* request; while fetch_orders runs (the refresh POSTs and the page
\* requests) ts_refresh is not None and the refresh_token sent is the
\* ts_refresh the session held when the cycle began.
C20_NoRequestWithoutRefreshToken ==
  [][/\ (pc = "gate" /\ ts_refresh = NoToken) =>
          /\ pc' = "idle"
          /\ attempts' = <<>>
          /\ pagelog' = <<>>
     /\ (caller' = "refresh" /\ pc' \in {"post", "returned", "page", "normalize"}) =>
          /\ ts_refresh' # NoToken
          /\ refresh_token' = ts_refresh'
          /\ refresh_token' = pre'[1]
     /\ (attempts' # attempts /\ attempts' # <<>>) =>
          caller \in ExchangeCallers \/ ts_refresh # NoToken
     /\ (pagelog' # pagelog /\ pagelog' # <<>>) => ts_refresh # NoToken]_vars
C20_Witness ==
  /\ pc = "post"
  /\ caller = "refresh"
  /\ attempts = <<429>>
  /\ refresh_token = 2
  /\ ts_refresh = 2

\* The rows of the pages the endpoint sent, one after the other.
RECURSIVE Flatten(_)
Flatten(pages) ==
  IF pages = <<>> THEN <<>> ELSE pages[1].rows \o Flatten(Tail(pages))

\* C15: what fetch_orders collects, which pages it requests and the records
\* it returns depend only on the rows of each page, not on whether a page
\* came as a bare array, under "data" or under "itens": the rows collected
\* are the rows sent, a further page is requested exactly after a full one,
\* and the records are those of the rows sent.
C15_ShapeIndependent ==
  fo_pc # "off" =>
    /\ raw_rows = Flatten(served)
    /\ \A k \in 1..(Len(served) - 1) : Len(served[k].rows) = PAGE_LIMIT
    /\ fo_pc = "page" =>
         /\ page_no = Len(served) + 1
         /\ \A k \in 1..Len(served) : Len(served[k].rows) = PAGE_LIMIT
    /\ fo_pc \in {"normalize", "done"} =>
         /\ page_no = Len(served)
         /\ Len(served[Len(served)].rows) < PAGE_LIMIT
    /\ fo_pc = "done" => recs = Normalize(Flatten(served))
C15_Witness ==
  /\ fo_pc = "done"
  /\ Len(served) = 2
  /\ served[1].shape = "itens"
  /\ served[2].shape = "data"
  /\ Len(recs) = PAGE_LIMIT + 2

\* C16: the normalization gives one record per collected row, in the same
\* order; a field is the row's value under its key, and None when the row
\* is not an object or lacks the key (loja_id: when loja is absent, is not
\* an object or lacks id); data and total are the parsed value, and NaT or
\* NaN when absent or not parseable. No row is dropped.
C16_OneRecordPerRow ==
  fo_pc = "done" =>
    /\ Len(recs) = Len(raw_rows)
    /\ \A k \in 1..Len(raw_rows) :
         LET x == raw_rows[k]
             y == recs[k]
             has(key) == x.is_dict /\ key \in x.keys
         IN
           /\ \A key \in {"id", "numero", "numeroLoja"} :
                y[key] = IF has(key) THEN x.val[key] ELSE None
           /\ y.loja_id = IF /\ has("loja")
                             /\ x.val.loja.is_dict
                             /\ "id" \in x.val.loja.keys
                            THEN x.val.loja.val.id ELSE None
           /\ y.data = IF has("data") /\ x.val.data \in DOMAIN Timestamps
                         THEN Timestamps[x.val.data] ELSE NaT
           /\ y.total = IF has("total") /\ x.val.total \in DOMAIN Floats
                          THEN Floats[x.val.total] ELSE NaN
C16_Witness ==
  /\ fo_pc = "done"
  /\ Len(recs) = 2
  /\ raw_rows[1] = NotAnObject
  /\ recs[1].id = None
  /\ recs[1].loja_id = None
  /\ recs[2].id = "1"
  /\ recs[2].total = NaN
  /\ recs[2].data = <<2024, 1, 5>>

\* C17: after upsert_config_yaml(name, token) the registry has exactly one
\* entry named name, with refresh_token token; the entries of other names
\* are the ones from before, in the same order; upserting the same pair
\* again changes nothing.
C17_UpsertExactlyOne ==
  upserted # NoUpsert =>
    LET named == {k \in 1..Len(cfg) : cfg[k].name = upserted.name}
        others(accounts) == SelectSeq(accounts, LAMBDA a : a.name # upserted.name)
    IN
      /\ Cardinality(named) = 1
      /\ \A k \in named : cfg[k].refresh_token = upserted.token
      /\ others(cfg) = others(cfg_before)
      /\ upsert_config_yaml(cfg, upserted.name, upserted.token) = cfg
C17_Witness ==
  /\ upserted = [name |-> "ts", token |-> "r2"]
  /\ Len(cfg_before) = 2
  /\ cfg_before[1].name = "ts"
  /\ cfg_before[1].refresh_token = "r1"
  /\ cfg_before[2].name = "bz"
  /\ Len(cfg) = 2
  /\ cfg[1] = cfg_before[2]
  /\ cfg[2].name = "ts"

====
